---------------------------- MODULE Spec2Model ----------------------------
(***************************************************************************)
(* Model of src/train.py: the NeuralSEA training script.                   *)
(*                                                                         *)
(* Numbers.  Losses and accuracies are kept in units of 1e-4 (the script   *)
(* rounds every reported metric to 4 decimals), learning rates in units of *)
(* 1e-12.  Sums that the script keeps in floating point are kept as exact  *)
(* fractions here; the inputs are chosen so that no rounding tie occurs,   *)
(* where a float and the exact fraction could round differently.           *)
(***************************************************************************)
EXTENDS Integers, Sequences, FiniteSets, TLC

---------------------------------------------------------------------------
(* Bounds of the model.                                                    *)

\* largest value of --epochs
MaxEpochs == 3
\* largest value of --patience
MaxPatience == 2
\* largest number of training batches per epoch
MaxTrainBatches == 2
\* largest small validation set (number of samples)
MaxSamples == 4
\* a validation set large enough for the 4-decimal rounding to matter
BigN == 40000
\* number of scheduler steps followed in SchedSpec
MaxSchedEpochs == 5

---------------------------------------------------------------------------
(* Program constants.                                                      *)

\* round(x, 4): metrics are reported in units of 1e-4
Scale == 10000
\* ReduceLROnPlateau default factor=0.1, as a divisor
factor_div == 10
\* ReduceLROnPlateau default threshold=1e-4 (mode 'min', threshold_mode
\* 'rel'): a is better than best iff a < best * (1 - 1/threshold_div)
threshold_div == 10000
\* ReduceLROnPlateau default eps=1e-8, in units of 1e-12
eps == 10000
\* ReduceLROnPlateau default min_lr=0
min_lr == 0
\* --lr default 5e-4, in units of 1e-12
default_lr == 500000000

\* The scheduler's 'best' is <<>> for +infinity (its initial value) and
\* <<v>> for the finite loss v.
Inf == <<>>

---------------------------------------------------------------------------
(* Input domains.                                                          *)

\* per-batch objective values (loss.item()) of the validation batches and
\* of the training batches, in units of 1e-4
BatchLosses == {9000, 10000}
TrainLosses == {8000}

\* values of --patience tried in the whole-script specification
MainPatience == {0, 1}

\* validation losses fed to the scheduler in SchedSpec, in units of 1e-4
SchedLosses == {9000, 9500, 9600, 9700, 9999, 10000}

\* values of --lr: the default 5e-4, and 1e-8 (--lr accepts any float)
LrChoices == {default_lr, 10000}

\* A validation sample: the net's logits and the target, per label.
\* row_ok matches in both labels; row_bad1 is wrong in the second label
\* only; row_bad2 is wrong in both; row_zero has logit 0 in the first label.
row_ok == [out |-> <<1, -1>>, tgt |-> <<1, 0>>]
row_bad1 == [out |-> <<1, 1>>, tgt |-> <<1, 0>>]
row_bad2 == [out |-> <<-1, 1>>, tgt |-> <<1, 0>>]
row_zero == [out |-> <<0, -1>>, tgt |-> <<1, 0>>]
RowChoices == {row_ok, row_bad1, row_bad2, row_zero}

---------------------------------------------------------------------------
(* Arithmetic helpers.                                                     *)

RECURSIVE GCD(_, _)
GCD(a, b) == IF b = 0 THEN a ELSE GCD(b, a % b)

\* a fraction in lowest terms
Frac(n, d) == LET g == GCD(n, d) IN [num |-> n \div g, den |-> d \div g]

FracAdd(f, n, d) == Frac(f.num * d + n * f.den, f.den * d)

\* n / d rounded to the nearest integer, ties to even
RoundDiv(n, d) ==
    LET q == n \div d
        r == n % d
    IN  IF 2 * r > d THEN q + 1
        ELSE IF 2 * r < d THEN q
        ELSE IF q % 2 = 0 THEN q ELSE q + 1

\* Python round(n / d, 4) of the fraction n / d, in units of 1e-4
Round4(n, d) == RoundDiv(Scale * n, d)

\* Python round(s / d, 4) of a sum s that is itself in units of 1e-4
Round4Units(s, d) == RoundDiv(s, d)

\* ceil(n / b): len(DataLoader) with drop_last=False
NumBatches(n, b) == (n + b - 1) \div b

Min(a, b) == IF a < b THEN a ELSE b
Max(a, b) == IF a > b THEN a ELSE b

---------------------------------------------------------------------------
VARIABLES
    args,            \* parsed command line: cuda, visdom, epochs, patience, lr, valid_batch_size
    cuda_available,  \* torch.cuda.is_available()
    pc,              \* position of the script
    failure,         \* the uncaught exception that ended the run, or "none"
    vis,             \* vis.line calls made so far: <<window, series, update, X>>
    built,           \* objects constructed by the setup section
    train_batches,   \* len(train_set_loader)
    valid_set,       \* the validation samples, in the order the loader yields them:
                     \* n samples, sample r being rows[r] where given, else fill
    epoch,           \* loop variable of the epoch loop
    i,               \* training batches consumed in this epoch
    epoch_loss,      \* train(): running sum of batch losses
    train_loss,      \* result of train()
    vb,              \* validation batches consumed in this epoch
    avg_loss,        \* validate(): running sum of batch losses
    avg_acc,         \* validate(): running sum of batch accuracies (a fraction)
    valid_loss,      \* result of validate()
    valid_acc,       \* result of validate()
    best,            \* lr_scheduler.best
    num_bad_epochs,  \* lr_scheduler.num_bad_epochs
    lr,              \* optimizer.param_groups[0]['lr']
    hist,            \* history: scheduler input and state after each step
    dir_exists,      \* whether pth_dir exists on disk
    saw_dir,         \* checkpoint(): result of os.path.exists(pth_dir)
    store,           \* files in pth_dir: path -> content
    log              \* history: steps completed, <<step, epoch>>

vars == <<args, cuda_available, pc, failure, vis, built, train_batches,
          valid_set, epoch, i, epoch_loss, train_loss, vb, avg_loss, avg_acc,
          valid_loss, valid_acc, best, num_bad_epochs, lr, hist, dir_exists,
          saw_dir, store, log>>

setup_vars == <<vis, built>>
train_vars == <<i, epoch_loss, train_loss>>
valid_vars == <<vb, avg_loss, avg_acc, valid_loss, valid_acc>>
sched_vars == <<best, num_bad_epochs, lr, hist>>
disk_vars == <<dir_exists, store>>
data_vars == <<args, cuda_available, train_batches, valid_set>>

ZeroFrac == [num |-> 0, den |-> 1]

\* the validation set holding the samples of the sequence rows
Dataset(rows) == [n |-> Len(rows), rows |-> rows, fill |-> row_ok]

\* the r-th sample the validation loader yields
sample(r) ==
    IF r \in DOMAIN valid_set.rows THEN valid_set.rows[r] ELSE valid_set.fill

---------------------------------------------------------------------------
(* The state before the script's first statement.                          *)

\* f'neuralsea-epoch-{epoch}-loss-{valid_loss}.pth' under pth_dir.  The
\* epoch is printed as digits and the loss after the fixed word "-loss-",
\* so two paths are equal exactly when both numbers are equal.
\* faulty variant: the epoch is left out of the file name
ckpt_path_LossOnly(e, loss) == <<0, loss>>
ckpt_path(e, loss) == <<e, loss>>

\* a checkpoint file left in pth_dir by an earlier run of the script
OldFile == [by |-> "earlier run", epoch |-> 1]

\* what pth_dir may hold when the script starts: nothing (the directory
\* does not exist or is empty) or the checkpoints of an earlier run
InitDisk ==
    \/ dir_exists = FALSE /\ store = <<>>
    \/ dir_exists = TRUE /\ store = <<>>
    \/ dir_exists = TRUE /\ store = (ckpt_path(1, 9000) :> OldFile)

InitLocals ==
    /\ failure = "none"
    /\ vis = <<>>
    /\ epoch = 0
    /\ i = 0
    /\ epoch_loss = 0
    /\ train_loss = 0
    /\ vb = 0
    /\ avg_loss = 0
    /\ avg_acc = ZeroFrac
    /\ valid_loss = 0
    /\ valid_acc = 0
    /\ best = Inf
    /\ num_bad_epochs = 0
    /\ hist = <<>>
    /\ saw_dir = FALSE
    /\ log = <<>>

Init ==
    /\ args \in [cuda : BOOLEAN, visdom : BOOLEAN, epochs : 1..MaxEpochs,
                 patience : MainPatience, lr : {default_lr},
                 valid_batch_size : {1}]
    /\ cuda_available \in BOOLEAN
    /\ train_batches = MaxTrainBatches
    /\ valid_set = Dataset(<<row_ok, row_bad1>>)
    /\ pc = "setup_visdom"
    /\ built = {}
    /\ lr = 0
    /\ InitDisk
    /\ InitLocals

---------------------------------------------------------------------------
(* Setup section of __main__.                                              *)

\* setup_visdom: three vis.line calls create the train and valid series of
\* the loss window and the valid series of the accuracy window
VisdomSetupCalls ==
    << <<"loss_win", "train", "create", 1>>,
       <<"loss_win", "valid", "new", 1>>,
       <<"acc_win", "valid", "create", 1>> >>

\* if args.visdom: vis, loss_win, acc_win = setup_visdom(args.env)
setup_visdom ==
    /\ pc = "setup_visdom"
    /\ vis' = IF args.visdom THEN VisdomSetupCalls ELSE vis
    /\ pc' = "setup_device"
    /\ UNCHANGED <<data_vars, failure, built, epoch, train_vars, valid_vars,
                   sched_vars, disk_vars, saw_dir, log>>

\* device = setup_device(args.cuda): raises when CUDA is asked for and absent
setup_device ==
    /\ pc = "setup_device"
    /\ IF args.cuda /\ ~cuda_available
         THEN /\ pc' = "failed"
              /\ failure' = "No GPU found"
              /\ built' = built
         ELSE /\ pc' = "get_dataset_loader"
              /\ failure' = failure
              /\ built' = built \cup {"device"}
    /\ UNCHANGED <<data_vars, vis, epoch, train_vars, valid_vars,
                   sched_vars, disk_vars, saw_dir, log>>

\* train_set_loader and valid_set_loader = get_dataset_loader(...)
get_dataset_loader ==
    /\ pc = "get_dataset_loader"
    /\ built' = built \cup {"train_set_loader", "valid_set_loader"}
    /\ pc' = "build_net"
    /\ UNCHANGED <<data_vars, failure, vis, epoch, train_vars, valid_vars,
                   sched_vars, disk_vars, saw_dir, log>>

\* net, objective, optimizer (with lr=args.lr) and lr_scheduler
build_net ==
    /\ pc = "build_net"
    /\ built' = built \cup {"net", "objective", "optimizer", "lr_scheduler"}
    /\ lr' = args.lr
    /\ best' = Inf
    /\ num_bad_epochs' = 0
    /\ pc' = "for_epoch"
    /\ UNCHANGED <<data_vars, failure, vis, epoch, train_vars, valid_vars,
                   hist, disk_vars, saw_dir, log>>

---------------------------------------------------------------------------
(* The epoch loop.                                                         *)

\* for epoch in range(1, args.epochs + 1)
\* faulty variant: the loop stops once the learning rate was reduced
for_epoch_EarlyStop ==
    /\ pc = "for_epoch"
    /\ IF epoch < args.epochs /\ lr = args.lr
         THEN /\ epoch' = epoch + 1
              /\ pc' = "train"
         ELSE /\ epoch' = epoch
              /\ pc' = "done"
    /\ i' = 0
    /\ epoch_loss' = 0
    /\ UNCHANGED <<data_vars, failure, setup_vars, train_loss, valid_vars,
                   sched_vars, disk_vars, saw_dir, log>>

for_epoch ==
    /\ pc = "for_epoch"
    /\ IF epoch < args.epochs
         THEN /\ epoch' = epoch + 1
              /\ pc' = "train"
         ELSE /\ epoch' = epoch
              /\ pc' = "done"
    /\ i' = 0
    /\ epoch_loss' = 0
    /\ UNCHANGED <<data_vars, failure, setup_vars, train_loss, valid_vars,
                   sched_vars, disk_vars, saw_dir, log>>

\* train(): one iteration of the loop over train_set_loader
train_batch ==
    /\ pc = "train"
    /\ i < train_batches
    /\ \E loss \in TrainLosses : epoch_loss' = epoch_loss + loss
    /\ i' = i + 1
    /\ log' = Append(log, <<"train_batch", epoch>>)
    /\ UNCHANGED <<data_vars, pc, failure, setup_vars, epoch, train_loss,
                   valid_vars, sched_vars, disk_vars, saw_dir>>

\* train(): the loader is exhausted; return round(epoch_loss / len, 4)
\* faulty variant: train() returns before the loader is exhausted
train_return_Early ==
    /\ pc = "train"
    /\ i >= 1
    /\ train_loss' = Round4Units(epoch_loss, train_batches)
    /\ pc' = "validate"
    /\ vb' = 0
    /\ avg_loss' = 0
    /\ avg_acc' = ZeroFrac
    /\ log' = Append(log, <<"train", epoch>>)
    /\ UNCHANGED <<data_vars, failure, setup_vars, epoch, i, epoch_loss,
                   valid_loss, valid_acc, sched_vars, disk_vars, saw_dir>>

train_return ==
    /\ pc = "train"
    /\ i = train_batches
    /\ train_loss' = Round4Units(epoch_loss, train_batches)
    /\ pc' = "validate"
    /\ vb' = 0
    /\ avg_loss' = 0
    /\ avg_acc' = ZeroFrac
    /\ log' = Append(log, <<"train", epoch>>)
    /\ UNCHANGED <<data_vars, failure, setup_vars, epoch, i, epoch_loss,
                   valid_loss, valid_acc, sched_vars, disk_vars, saw_dir>>

---------------------------------------------------------------------------
(* validate().                                                             *)

\* torch.sigmoid(x).round(): sigmoid(x) > 0.5 exactly when x > 0, and
\* sigmoid(0) = 0.5 rounds to the even neighbour 0
\* faulty variant: 0.5 rounds up
round_sigmoid_HalfUp(x) == IF x >= 0 THEN 1 ELSE 0
round_sigmoid(x) == IF x > 0 THEN 1 ELSE 0

RECURSIVE prod(_)
prod(s) == IF s = <<>> THEN 1 ELSE Head(s) * prod(Tail(s))

RECURSIVE sum(_)
sum(s) == IF s = <<>> THEN 0 ELSE Head(s) + sum(Tail(s))

\* target == torch.sigmoid(output).round(), for one sample: a 0/1 per label
label_eq(row) ==
    [l \in DOMAIN row.tgt |->
        IF row.tgt[l] = round_sigmoid(row.out[l]) THEN 1 ELSE 0]

\* torch.prod(..., dim=-1) for one sample: 1 iff every label agrees
\* faulty variant: one agreeing label is enough
sample_match_AnyLabel(row) == IF sum(label_eq(row)) > 0 THEN 1 ELSE 0
sample_match(row) == prod(label_eq(row))

\* len(valid_set_loader)
valid_batches == NumBatches(valid_set.n, args.valid_batch_size)

\* the samples of the batch the loader yields after b batches
batch_rows(b) ==
    (b * args.valid_batch_size + 1) ..
        Min((b + 1) * args.valid_batch_size, valid_set.n)

\* torch.sum(torch.prod(...)) for a batch
batch_correct(b) ==
    Cardinality({r \in batch_rows(b) : sample_match(sample(r)) = 1})

\* what one batch adds to avg_acc: correct / input.shape[0]
acc_add(acc, b) == FracAdd(acc, batch_correct(b), Cardinality(batch_rows(b)))

\* validate(): one iteration of the loop over valid_set_loader
validate_batch ==
    /\ pc = "validate"
    /\ vb < valid_batches
    /\ \E loss \in BatchLosses : avg_loss' = avg_loss + loss
    /\ avg_acc' = acc_add(avg_acc, vb)
    /\ vb' = vb + 1
    /\ log' = Append(log, <<"valid_batch", epoch>>)
    /\ UNCHANGED <<data_vars, pc, failure, setup_vars, epoch, train_vars,
                   valid_loss, valid_acc, sched_vars, disk_vars, saw_dir>>

\* round(avg_acc / len(valid_set_loader), 4)
acc_result(acc, n) == Round4(acc.num, acc.den * n)

\* validate(): the loader is exhausted; return the two rounded means
validate_return ==
    /\ pc = "validate"
    /\ vb = valid_batches
    /\ valid_loss' = Round4Units(avg_loss, valid_batches)
    /\ valid_acc' = acc_result(avg_acc, valid_batches)
    /\ pc' = "lr_step"
    /\ log' = Append(log, <<"validate", epoch>>)
    /\ UNCHANGED <<data_vars, failure, setup_vars, epoch, train_vars, vb,
                   avg_loss, avg_acc, sched_vars, disk_vars, saw_dir>>

---------------------------------------------------------------------------
(* lr_scheduler = ReduceLROnPlateau(optimizer, patience=patience), with    *)
(* the library's defaults mode='min', factor=0.1, threshold=1e-4,          *)
(* threshold_mode='rel', cooldown=0, min_lr=0, eps=1e-8.                   *)

\* is_better(a, best): a < best * (1 - threshold)
is_better(a, b) ==
    IF b = Inf THEN TRUE
    ELSE a * threshold_div < b[1] * (threshold_div - 1)

\* num_bad_epochs > patience
\* faulty variant: >= in place of >
exceeds_patience_AtLeast(n, patience) == n >= patience
exceeds_patience(n, patience) == n > patience

\* _reduce_lr: new_lr = max(old_lr * factor, min_lr), stored only when
\* old_lr - new_lr > eps
\* faulty variant: the new rate is stored whatever the difference
reduce_lr_NoEps(old) == Max(old \div factor_div, min_lr)
reduce_lr(old) ==
    LET new == Max(old \div factor_div, min_lr)
    IN  IF old - new > eps THEN new ELSE old

\* lr_scheduler.step(metrics); cooldown=0, so the scheduler is never in
\* cooldown
step(metrics) ==
    LET better == is_better(metrics, best)
        bad == IF better THEN 0 ELSE num_bad_epochs + 1
        reduce == exceeds_patience(bad, args.patience)
    IN  /\ best' = IF better THEN <<metrics>> ELSE best
        /\ num_bad_epochs' = IF reduce THEN 0 ELSE bad
        /\ lr' = IF reduce THEN reduce_lr(lr) ELSE lr
        /\ hist' = Append(hist, [loss |-> metrics, old_best |-> best,
                                 bad |-> bad, old_lr |-> lr,
                                 wait |-> num_bad_epochs',
                                 lr |-> lr'])

\* lr_scheduler.step(valid_loss)
lr_scheduler_step ==
    /\ pc = "lr_step"
    /\ step(valid_loss)
    /\ pc' = "ckpt_exists"
    /\ log' = Append(log, <<"lr_scheduler.step", epoch>>)
    /\ UNCHANGED <<data_vars, failure, setup_vars, epoch, train_vars,
                   valid_vars, disk_vars, saw_dir>>

---------------------------------------------------------------------------
(* checkpoint(net, args.pth_dir, epoch, valid_loss).                       *)

\* the file torch.save(net, path) writes
NewFile == [by |-> "this run", epoch |-> epoch]
\* what is left at path when torch.save fails after opening the file
PartialFile == [by |-> "failed save", epoch |-> epoch]

WriteFile(path, content) ==
    [p \in DOMAIN store \cup {path} |->
        IF p = path THEN content ELSE store[p]]

\* if not os.path.exists(pth_dir)
checkpoint_exists ==
    /\ pc = "ckpt_exists"
    /\ saw_dir' = dir_exists
    /\ pc' = IF dir_exists THEN "ckpt_save" ELSE "ckpt_mkdir"
    /\ UNCHANGED <<data_vars, failure, setup_vars, epoch, train_vars,
                   valid_vars, sched_vars, disk_vars, log>>

\* os.mkdir(pth_dir): raises FileExistsError when the directory exists
checkpoint_mkdir ==
    /\ pc = "ckpt_mkdir"
    /\ IF dir_exists
         THEN /\ pc' = "failed"
              /\ failure' = "FileExistsError"
              /\ dir_exists' = dir_exists
         ELSE /\ pc' = "ckpt_save"
              /\ failure' = failure
              /\ dir_exists' = TRUE
    /\ UNCHANGED <<data_vars, setup_vars, epoch, train_vars, valid_vars,
                   sched_vars, store, saw_dir, log>>

\* torch.save(net, path) succeeds
checkpoint_save ==
    /\ pc = "ckpt_save"
    /\ store' = WriteFile(ckpt_path(epoch, valid_loss), NewFile)
    /\ pc' = "report"
    /\ log' = Append(log, <<"checkpoint", epoch>>)
    /\ UNCHANGED <<data_vars, failure, setup_vars, epoch, train_vars,
                   valid_vars, sched_vars, dir_exists, saw_dir>>

\* torch.save(net, path) raises (an I/O error): the exception is not
\* caught anywhere, so the script ends.  The file was either not created
\* or is left incomplete.
\* faulty variant: the exception is swallowed and the round goes on
save_failed_Continue ==
    /\ pc = "ckpt_save"
    /\ pc' = "report"
    /\ failure' = "torch.save failed"
    /\ \/ store' = store
       \/ store' = WriteFile(ckpt_path(epoch, valid_loss), PartialFile)
    /\ UNCHANGED <<data_vars, setup_vars, epoch, train_vars, valid_vars,
                   sched_vars, dir_exists, saw_dir, log>>

checkpoint_save_fails ==
    /\ pc = "ckpt_save"
    /\ pc' = "failed"
    /\ failure' = "torch.save failed"
    /\ \/ store' = store
       \/ store' = WriteFile(ckpt_path(epoch, valid_loss), PartialFile)
    /\ UNCHANGED <<data_vars, setup_vars, epoch, train_vars, valid_vars,
                   sched_vars, dir_exists, saw_dir, log>>

\* if args.visdom: three vis.line(..., update='append') calls
VisdomAppendCalls ==
    << <<"loss_win", "train", "append", epoch>>,
       <<"loss_win", "valid", "append", epoch>>,
       <<"acc_win", "valid", "append", epoch>> >>

report ==
    /\ pc = "report"
    /\ IF args.visdom
         THEN /\ vis' = vis \o VisdomAppendCalls
              /\ log' = Append(log, <<"vis.line", epoch>>)
         ELSE UNCHANGED <<vis, log>>
    /\ pc' = "for_epoch"
    /\ UNCHANGED <<data_vars, failure, built, epoch, train_vars, valid_vars,
                   sched_vars, disk_vars, saw_dir>>

\* another process (a concurrent run with the same --pth_dir) creates the
\* checkpoint directory
other_process_mkdir ==
    /\ ~dir_exists
    /\ dir_exists' = TRUE
    /\ UNCHANGED <<data_vars, pc, failure, setup_vars, epoch, train_vars,
                   valid_vars, sched_vars, store, saw_dir, log>>

---------------------------------------------------------------------------
(* The whole script.                                                       *)

Script ==
    \/ setup_visdom
    \/ setup_device
    \/ get_dataset_loader
    \/ build_net
    \/ for_epoch
    \/ train_batch
    \/ train_return
    \/ validate_batch
    \/ validate_return
    \/ lr_scheduler_step
    \/ checkpoint_exists
    \/ checkpoint_mkdir
    \/ checkpoint_save
    \/ checkpoint_save_fails
    \/ report

Next == Script \/ other_process_mkdir

Spec == Init /\ [][Next]_vars

\* The script is one sequential process: while a statement remains, it runs.
FairSpec == Spec /\ WF_vars(Script)

---------------------------------------------------------------------------
(* validate() alone, over every small validation set and batch size, and   *)
(* over one large validation set read as a single batch.                   *)

AllBuilt ==
    {"device", "train_set_loader", "valid_set_loader", "net", "objective",
     "optimizer", "lr_scheduler"}

\* a validation set of BigN samples that all match, except those in wrong
BigSet(wrong) ==
    [n |-> BigN, rows |-> [r \in wrong |-> row_bad1], fill |-> row_ok]

InitValidate ==
    /\ \/ \E n \in 1..MaxSamples :
            /\ \E rows \in [1..n -> RowChoices] : valid_set = Dataset(rows)
            /\ args \in [cuda : {FALSE}, visdom : {FALSE}, epochs : {1},
                         patience : {0}, lr : {default_lr},
                         valid_batch_size : 1..MaxSamples]
       \/ /\ valid_set \in {BigSet({}), BigSet({1}), BigSet({BigN})}
          /\ args \in [cuda : {FALSE}, visdom : {FALSE}, epochs : {1},
                       patience : {0}, lr : {default_lr},
                       valid_batch_size : {BigN}]
    /\ cuda_available = FALSE
    /\ train_batches = MaxTrainBatches
    /\ pc = "validate"
    /\ built = AllBuilt
    /\ lr = args.lr
    /\ dir_exists = FALSE
    /\ store = <<>>
    /\ InitLocals

ValidateNext == validate_batch \/ validate_return

ValSpec == InitValidate /\ [][ValidateNext]_vars

---------------------------------------------------------------------------
(* The scheduler alone, stepped once per epoch with the validation loss    *)
(* of that epoch, over every loss sequence.                                *)

InitScheduler ==
    /\ args \in [cuda : {FALSE}, visdom : {FALSE}, epochs : {MaxSchedEpochs},
                 patience : 0..MaxPatience, lr : LrChoices,
                 valid_batch_size : {1}]
    /\ cuda_available = FALSE
    /\ train_batches = MaxTrainBatches
    /\ valid_set = Dataset(<<row_ok>>)
    /\ pc = "lr_step"
    /\ built = AllBuilt
    /\ lr = args.lr
    /\ dir_exists = FALSE
    /\ store = <<>>
    /\ InitLocals

\* one round of the epoch loop, seen from the scheduler: validate returns
\* some loss and lr_scheduler.step(valid_loss) is called with it
scheduler_round ==
    /\ pc = "lr_step"
    /\ epoch < args.epochs
    /\ epoch' = epoch + 1
    /\ \E loss \in SchedLosses :
          /\ valid_loss' = loss
          /\ step(loss)
    /\ UNCHANGED <<data_vars, pc, failure, setup_vars, train_vars, vb,
                   avg_loss, avg_acc, valid_acc, disk_vars, saw_dir, log>>

SchedSpec == InitScheduler /\ [][scheduler_round]_vars

---------------------------------------------------------------------------
(* Properties of the epoch loop (checked under Spec and FairSpec).         *)

Repeat(x, n) == [k \in 1..n |-> x]

\* the steps one round completes, in the order the claim states
RoundSteps(e) ==
    Repeat(<<"train_batch", e>>, train_batches)
    \o << <<"train", e>> >>
    \o Repeat(<<"valid_batch", e>>, valid_batches)
    \o << <<"validate", e>>, <<"lr_scheduler.step", e>>, <<"checkpoint", e>> >>
    \o (IF args.visdom THEN << <<"vis.line", e>> >> ELSE <<>>)

RECURSIVE ExpectedLog(_)
ExpectedLog(n) == IF n = 0 THEN <<>> ELSE ExpectedLog(n - 1) \o RoundSteps(n)

IsPrefix(s, t) ==
    /\ Len(s) <= Len(t)
    /\ \A k \in 1..Len(s) : s[k] = t[k]

\* the epochs for which the given step has completed, in order
EpochsOf(name) ==
    LET sel == SelectSeq(log, LAMBDA ev : ev[1] = name)
    IN  [k \in 1..Len(sel) |-> sel[k][2]]

OneTo(n) == [k \in 1..n |-> k]

ThisRunFiles == {p \in DOMAIN store : store[p].by = "this run"}

\* C1: in every round the steps complete in the order train (all training
\* batches), validate (all validation batches), scheduler step, checkpoint
\* and, only with reporting enabled, the report; a round starts only after
\* the previous round's last step.  The steps completed so far are always a
\* prefix of that order.
C1_StrictOrder == IsPrefix(log, ExpectedLog(args.epochs))

C1_Witness ==
    /\ pc = "done"
    /\ args.visdom
    /\ args.epochs = MaxEpochs
    /\ log = ExpectedLog(MaxEpochs)
    /\ train_batches >= 2
    /\ valid_batches >= 2

\* C2: a run with epochs = N in which no step fails ends, and when it has
\* ended it has run exactly the rounds 1, 2, ..., N, in this order, whatever
\* the validation losses and learning-rate reductions were.
C2_ExactlyNRounds ==
    /\ <>(pc = "done" \/ failure # "none")
    /\ [](pc = "done" =>
            /\ epoch = args.epochs
            /\ EpochsOf("train") = OneTo(args.epochs)
            /\ EpochsOf("validate") = OneTo(args.epochs)
            /\ EpochsOf("lr_scheduler.step") = OneTo(args.epochs)
            /\ EpochsOf("checkpoint") = OneTo(args.epochs))
    /\ [](failure = "none" /\ pc # "done" => ENABLED Script)

C2_Witness ==
    /\ pc = "done"
    /\ args.epochs = MaxEpochs
    /\ EpochsOf("train") = OneTo(MaxEpochs)
    /\ lr # args.lr

\* C3, as stated: no save deletes or overwrites a file that was in the
\* store.
C3_NeverOverwrites ==
    [][\A p \in DOMAIN store : p \in DOMAIN store' /\ store'[p] = store[p]]_vars

\* C3, amended: every round saves exactly one checkpoint, improved or not;
\* the store holds exactly one file written by this run for each round
\* whose checkpoint step has completed, under pairwise distinct names.
C3_OnePerEpoch ==
    LET done == EpochsOf("checkpoint")
    IN  /\ done = OneTo(Len(done))
        /\ pc \in {"report", "for_epoch", "done"} => Len(done) = epoch
        /\ Cardinality(ThisRunFiles) = Len(done)
        /\ \A k \in 1..Len(done) :
              \E p \in ThisRunFiles :
                  /\ p = <<k, hist[k].loss>>
                  /\ store[p] = [by |-> "this run", epoch |-> k]

C3_Witness ==
    /\ pc = "done"
    /\ args.epochs = MaxEpochs
    /\ Cardinality(ThisRunFiles) = MaxEpochs
    /\ \E k \in 2..MaxEpochs : hist[k].bad > 0 /\ hist[k].loss = hist[k - 1].loss

\* C6: when the checkpoint of epoch k fails, the run ends there: the write
\* is not retried, nothing of a later epoch runs, the metrics of epoch k are
\* not reported, and the checkpoints of epochs 1..k-1 are still in the
\* store as they were written.
C6_FailedCheckpointAborts ==
    failure \in {"torch.save failed", "FileExistsError"} =>
        /\ pc = "failed"
        /\ log # <<>>
        /\ log[Len(log)] = <<"lr_scheduler.step", epoch>>
        /\ EpochsOf("checkpoint") = OneTo(epoch - 1)
        /\ \A c \in 1..Len(vis) : vis[c][3] = "append" => vis[c][4] < epoch
        /\ \A k \in 1..(epoch - 1) :
              /\ ckpt_path(k, hist[k].loss) \in DOMAIN store
              /\ store[ckpt_path(k, hist[k].loss)] =
                     [by |-> "this run", epoch |-> k]

C6_Witness ==
    /\ failure = "torch.save failed"
    /\ pc = "failed"
    /\ epoch = 2
    /\ args.epochs = MaxEpochs
    /\ args.visdom
    /\ Cardinality(ThisRunFiles) = 1

\* C7: the directory creation of checkpoint() tolerates the directory
\* having been created by another process at any moment: checkpoint()
\* never ends with the directory's existence as an error.
C7_RaceTolerant == failure # "FileExistsError"

\* C8: when setup_device raises, nothing has been created: no dataset
\* loader, net or optimizer, no checkpoint, and no visdom window or series.
C8_NoPartialState ==
    failure = "No GPU found" =>
        /\ built = {}
        /\ ThisRunFiles = {}
        /\ log = <<>>
        /\ vis = <<>>

---------------------------------------------------------------------------
(* Properties of the plateau scheduler (checked under SchedSpec).          *)

Losses == [k \in 1..Len(hist) |-> hist[k].loss]

\* the epochs at which the learning rate changed
ReducedAt == {k \in 1..Len(hist) : hist[k].lr # hist[k].old_lr}

\* one reduction is larger than eps
ReductionTakesEffect(rate) == rate - rate \div factor_div > eps

CounterIsAsDescribed(k) ==
    LET h == hist[k]
        improved == \/ h.old_best = Inf
                    \/ h.loss * threshold_div
                         < h.old_best[1] * (threshold_div - 1)
        before == IF k = 1 THEN 0 ELSE hist[k - 1].wait
    IN  h.bad = IF improved THEN 0 ELSE before + 1

\* the scenario of the claim: patience 2, losses 1.0, 0.9, 0.95, 0.96, 0.97
IsScenario ==
    /\ args.patience = 2
    /\ Losses = <<10000, 9000, 9500, 9600, 9700>>

\* a loss, then patience+1 epochs constant at a higher loss
IsFlatRun ==
    /\ Len(hist) = args.patience + 2
    /\ hist[1].loss < hist[2].loss
    /\ \A k \in 2..Len(hist) : hist[k].loss = hist[2].loss

---------------------------------------------------------------------------
(* Properties of validate() (checked under ValSpec).                       *)

\* the prediction of a sample agrees with its target in label l
LabelAgrees(row, l) == row.tgt[l] = (IF row.out[l] > 0 THEN 1 ELSE 0)

Matches(row) == \A l \in DOMAIN row.tgt : LabelAgrees(row, l)

WrongLabels(row) == {l \in DOMAIN row.tgt : ~LabelAgrees(row, l)}

AllMatch == \A r \in 1..valid_set.n : Matches(sample(r))

MatchCount == Cardinality({r \in 1..valid_set.n : Matches(sample(r))})

\* exactly one sample is wrong, in exactly one label
OneWrongInOneLabel ==
    \E r \in 1..valid_set.n :
        /\ Cardinality(WrongLabels(sample(r))) = 1
        /\ \A q \in (1..valid_set.n) \ {r} : Matches(sample(q))

Returned == pc = "lr_step"

\* the size of the largest batch the loader yields
LargestBatch == Min(args.valid_batch_size, valid_set.n)

\* C9, as stated: the returned accuracy is in [0, 1] and is 1 exactly when
\* every sample matches its target in every label.
C9_AccuracyOneIffAllMatch ==
    Returned =>
        /\ valid_acc \in 0..Scale
        /\ (valid_acc = Scale) <=> AllMatch

\* C9, amended: the returned accuracy is in [0, 1]; it is 1 when every
\* sample matches; and when (number of batches) * (largest batch size) is
\* at most 10000, it is 1 only when every sample matches.  (For larger
\* validation sets the rounding to 4 decimals can return 1 with a
\* mismatching sample.)
C9_AccuracyOneIffAllMatchSmall ==
    Returned =>
        /\ valid_acc \in 0..Scale
        /\ AllMatch => valid_acc = Scale
        /\ valid_batches * LargestBatch <= Scale =>
              (valid_acc = Scale => AllMatch)

C9_Witness ==
    /\ Returned
    /\ valid_set.n = MaxSamples
    /\ args.valid_batch_size = 3
    /\ OneWrongInOneLabel
    /\ valid_acc < Scale
    /\ valid_acc > 0

\* C10, as stated: with 4 samples, one of them wrong in one label, the
\* returned accuracy is 0.7500, and 1.0000 when all four match, for every
\* batch size.
C10_ThreeOfFour ==
    Returned /\ valid_set.n = 4 =>
        /\ OneWrongInOneLabel => valid_acc = 7500
        /\ AllMatch => valid_acc = Scale

\* C10, amended: with 4 samples, the returned accuracy is 1.0000 when all
\* four match; with one of them wrong in one label it is 0.7500 for the
\* batch sizes 1, 2 and 4 or more, and for batch size 3 it is the mean of
\* the two batch accuracies, 0.8333 or 0.5000.  Whenever all batches have
\* the same size the returned accuracy is the fraction of matching samples.
C10_ThreeOfFourEvenBatches ==
    Returned /\ valid_set.n = 4 =>
        /\ AllMatch => valid_acc = Scale
        /\ OneWrongInOneLabel /\ args.valid_batch_size # 3 => valid_acc = 7500
        /\ OneWrongInOneLabel /\ args.valid_batch_size = 3 =>
              valid_acc \in {8333, 5000}
        /\ 4 % LargestBatch = 0 => valid_acc = Round4(MatchCount, 4)

C10_Witness ==
    /\ Returned
    /\ valid_set.n = 4
    /\ args.valid_batch_size = 2
    /\ OneWrongInOneLabel
    /\ sample(4) = row_zero
    /\ valid_acc = 7500

=============================================================================
